---- MODULE Spec2Model ----
(***************************************************************************)
(* hot_fair_utilities: the resumable batch driver that encodes label       *)
(* polygons into sparse multimasks (preprocessing/multimasks_from_         *)
(* polygons.py) and the inference dispatcher (inference/predict.py).       *)
(*                                                                         *)
(* Lengths are integers in hundredths of a unit (0.5 m is 50, a resolution *)
(* of 0.1 units per pixel is 10); probabilities are integers in 0..Scale,  *)
(* standing for k / Scale.                                                 *)
(***************************************************************************)
EXTENDS Integers, Sequences, FiniteSets, TLC

\* ------------------------------------------------------------------ bounds
MaxPairs == 3
MaxRuns == 2
MaxImages == 17
Scale == 4
NumClasses == 2
MaxInstances == 2

\* ------------------------------------------------------- program constants
BATCH_SIZE == 8

\* --------------------------------------------------------------- inputs
\* input_boundary_width / input_contact_spacing, in hundredths of a metre.
MeterValues == {-50, 50, 75}
\* per-axis tile resolutions, in hundredths of a unit per pixel.
ResValues == {10, 30}

VARIABLES
    \* ---- multimasks_from_polygons: inputs and file system
    n,                      \* number of chip/label pairs
    failing,                \* the pairs whose encoding fails
    input_boundary_width,
    input_contact_spacing,
    fs,                     \* mask path -> content of the file there
    \* ---- multimasks_from_polygons: locals
    pc,
    i,                      \* position of the loop in json_chip_mask_zips
    first_iteration,
    res,                    \* reference_im.res of the current chip
    metric,                 \* crs_is_metric(gdf) of the current pair
    meters,
    boundary_width,
    contact_spacing,
    \* ---- multimasks_from_polygons: history of the current run
    run,
    prevOutcome,            \* how the previous run ended
    fsAtStart,
    reachContent,           \* content of each mask path when the loop reached it
    skipped,
    encoded,                \* pairs for which the encoder was invoked
    writes,                 \* mask path -> number of mask writes
    reached,                \* pairs that reached unit reconciliation
    printCount,
    printedAt,
    \* ---- predict: inputs and file system
    kind,                   \* class of the loaded model
    nImg,                   \* len(image_paths)
    confidence,
    dir,                    \* files of prediction_path, <<stem, extension>>
    \* ---- predict: locals and history
    ppc,
    k,                      \* chunk index / stream index
    raisedError,
    dir0,
    pathTaken,
    chunks,
    saved,                  \* stem -> number of save_mask calls
    lastProb,               \* building probability of the last thresholded pixel
    lastOut,                \* its output value
    geoCalledWith,          \* the directory contents handed to georeference
    cleaned                 \* patterns already removed

maskVars == <<n, failing, input_boundary_width, input_contact_spacing, fs, pc, i,
              first_iteration, res, metric, meters, boundary_width,
              contact_spacing, run, prevOutcome, fsAtStart, reachContent,
              skipped, encoded, writes, reached, printCount, printedAt>>

predictVars == <<kind, nImg, confidence, dir, ppc, k, raisedError, dir0,
                 pathTaken, chunks, saved, lastProb, lastOut, geoCalledWith,
                 cleaned>>

vars == <<maskVars, predictVars>>

\* ------------------------------------------------------------- helpers
Min2(a, b) == IF a <= b THEN a ELSE b

SetMin(S) == CHOOSE x \in S : \A y \in S : x <= y

SetMax(S) == CHOOSE x \in S : \A y \in S : x >= y

\* ================================================================
\*  preprocessing/multimasks_from_polygons.py
\* ================================================================
\* content of a mask file: "absent", "old" (there before the first run),
\* "onehot" (left by the rasterizer), "partial" (a write that failed), "mask"
\* Path(mask_path).is_file()
IsFile_never(p) == FALSE

IsFile(p) == fs[p] # "absent"

\* Python's int(a / b): the quotient truncated toward zero (b > 0).
IntTrunc_round(a, b) == IF a >= 0 THEN (2 * a + b) \div (2 * b)
                        ELSE -((2 * (-a) + b) \div (2 * b))

IntTrunc(a, b) == IF a >= 0 THEN a \div b ELSE -((-a) \div b)

\* int(input_width / min(reference_im.res))
PixelWidth(w, r) == IntTrunc(w, Min2(r[1], r[2]))

\* first_iteration after the parameters were printed
AfterPrint_kept(fi) == fi

AfterPrint(fi) == FALSE

\* the with-block that writes sparse_multi_mask to mask_path
Written_lost(f, p) == f

Written(f, p) == [f EXCEPT ![p] = "mask"]

\* No handler encloses the loop body: an exception raised while a pair is
\* encoded leaves the function.
OnFailure_caught(ix) == [pc |-> "loop", i |-> ix + 1]

OnFailure(ix) == [pc |-> "raised", i |-> ix]

InitPredictIdle ==
    /\ kind = "none"
    /\ nImg = 0
    /\ confidence = 0
    /\ dir = {}
    /\ ppc = "idle"
    /\ k = 0
    /\ raisedError = "none"
    /\ dir0 = {}
    /\ pathTaken = {}
    /\ chunks = <<>>
    /\ saved = <<>>
    /\ lastProb = 0
    /\ lastOut = 0
    /\ geoCalledWith = <<>>
    /\ cleaned = <<>>

InitMasks ==
    /\ n \in 0..MaxPairs
    /\ failing \in SUBSET (1..n)
    /\ input_boundary_width \in MeterValues
    /\ input_contact_spacing \in MeterValues
    /\ fs \in [1..n -> {"absent", "old"}]
    /\ pc = "idle"
    /\ i = 0
    /\ first_iteration = TRUE
    /\ res = <<0, 0>>
    /\ metric = FALSE
    /\ meters = FALSE
    /\ boundary_width = 0
    /\ contact_spacing = 0
    /\ run = 0
    /\ prevOutcome = "none"
    /\ fsAtStart = fs
    /\ reachContent = [p \in 1..n |-> "unreached"]
    /\ skipped = {}
    /\ encoded = {}
    /\ writes = [p \in 1..n |-> 0]
    /\ reached = {}
    /\ printCount = 0
    /\ printedAt = {}
    /\ InitPredictIdle

\* multimasks_from_polygons is called: lines 59-74.  zip(*chip_label_pairs)
\* of no pairs cannot be unpacked into two names.
Call ==
    /\ pc \in {"idle", "returned", "raised"}
    /\ run < MaxRuns
    /\ run' = run + 1
    /\ prevOutcome' = IF pc = "idle" THEN "none" ELSE pc
    /\ fsAtStart' = fs
    /\ reachContent' = [p \in 1..n |-> "unreached"]
    /\ skipped' = {}
    /\ encoded' = {}
    /\ writes' = [p \in 1..n |-> 0]
    /\ reached' = {}
    /\ printCount' = 0
    /\ printedAt' = {}
    /\ first_iteration' = TRUE
    /\ IF n = 0
         THEN pc' = "raised" /\ i' = 0
         ELSE pc' = "loop" /\ i' = 1
    /\ res' = <<0, 0>>
    /\ metric' = FALSE
    /\ meters' = FALSE
    /\ boundary_width' = 0
    /\ contact_spacing' = 0
    /\ UNCHANGED <<n, failing, input_boundary_width, input_contact_spacing, fs>>
    /\ UNCHANGED predictVars

\* the for statement is exhausted: the function returns.
Return ==
    /\ pc = "loop"
    /\ i > n
    /\ pc' = "returned"
    /\ UNCHANGED <<n, failing, input_boundary_width, input_contact_spacing, fs, i,
                   first_iteration, res, metric, meters, boundary_width,
                   contact_spacing, run, prevOutcome, fsAtStart, reachContent,
                   skipped, encoded, writes, reached, printCount, printedAt>>
    /\ UNCHANGED predictVars

\* lines 75-82: the mask file exists, continue.
Skip ==
    /\ pc = "loop"
    /\ i <= n
    /\ IsFile(i)
    /\ reachContent' = [reachContent EXCEPT ![i] = fs[i]]
    /\ skipped' = skipped \cup {i}
    /\ i' = i + 1
    /\ UNCHANGED <<n, failing, input_boundary_width, input_contact_spacing, fs, pc,
                   first_iteration, res, metric, meters, boundary_width,
                   contact_spacing, run, prevOutcome, fsAtStart, encoded, writes,
                   reached, printCount, printedAt>>
    /\ UNCHANGED predictVars

\* lines 85-97: read the chip header, the label file and the chip, drop
\* null and empty geometries, reproject on a CRS mismatch.
Load ==
    /\ pc = "loop"
    /\ i <= n
    /\ ~IsFile(i)
    /\ reachContent' = [reachContent EXCEPT ![i] = fs[i]]
    /\ encoded' = encoded \cup {i}
    /\ \/ /\ i \in failing
          /\ pc' = OnFailure(i).pc
          /\ i' = OnFailure(i).i
          /\ UNCHANGED <<res, metric>>
       \/ /\ res' \in ResValues \X ResValues
          /\ metric' \in BOOLEAN
          /\ pc' = "reconcile"
          /\ i' = i
    /\ UNCHANGED <<n, failing, input_boundary_width, input_contact_spacing, fs,
                   first_iteration, meters, boundary_width, contact_spacing, run,
                   prevOutcome, fsAtStart, skipped, writes, reached, printCount,
                   printedAt>>
    /\ UNCHANGED predictVars

\* lines 99-132: metric CRS or conversion to pixels, the parameters printed
\* while first_iteration is set.
Reconcile ==
    /\ pc = "reconcile"
    /\ reached' = reached \cup {i}
    /\ IF metric
         THEN /\ meters' = TRUE
              /\ boundary_width' = input_boundary_width
              /\ contact_spacing' = input_contact_spacing
         ELSE /\ meters' = FALSE
              /\ boundary_width' = PixelWidth(input_boundary_width, res)
              /\ contact_spacing' = PixelWidth(input_contact_spacing, res)
    /\ IF first_iteration
         THEN /\ printCount' = printCount + 1
              /\ printedAt' = printedAt \cup {i}
              /\ first_iteration' = AfterPrint(first_iteration)
         ELSE UNCHANGED <<printCount, printedAt, first_iteration>>
    /\ pc' = "raster"
    /\ UNCHANGED <<n, failing, input_boundary_width, input_contact_spacing, fs, i,
                   res, metric, run, prevOutcome, fsAtStart, reachContent, skipped,
                   encoded, writes>>
    /\ UNCHANGED predictVars

\* lines 136-156: explode, df_to_px_mask with out_file = mask_path, collapse
\* to the sparse mask.  The rasterizer is handed mask_path and may leave its
\* one-hot raster there; when it fails, what it had written stays.
Rasterize ==
    /\ pc = "raster"
    /\ \E left \in {"absent", "onehot"} :
          /\ fs' = [fs EXCEPT ![i] = left]
          /\ \/ /\ i \in failing
                /\ pc' = OnFailure(i).pc
                /\ i' = OnFailure(i).i
             \/ /\ pc' = "write"
                /\ i' = i
    /\ UNCHANGED <<n, failing, input_boundary_width, input_contact_spacing,
                   first_iteration, res, metric, meters, boundary_width,
                   contact_spacing, run, prevOutcome, fsAtStart, reachContent,
                   skipped, encoded, writes, reached, printCount, printedAt>>
    /\ UNCHANGED predictVars

\* lines 159-165: the sparse mask is written with the chip's metadata.  A
\* write that fails leaves nothing or a truncated file.
WriteMask ==
    /\ pc = "write"
    /\ \/ /\ i \in failing
          /\ \E left \in {"absent", "partial"} : fs' = [fs EXCEPT ![i] = left]
          /\ pc' = OnFailure(i).pc
          /\ i' = OnFailure(i).i
          /\ UNCHANGED writes
       \/ /\ i \notin failing
          /\ fs' = Written(fs, i)
          /\ writes' = [writes EXCEPT ![i] = @ + 1]
          /\ pc' = "loop"
          /\ i' = i + 1
    /\ UNCHANGED <<n, failing, input_boundary_width, input_contact_spacing,
                   first_iteration, res, metric, meters, boundary_width,
                   contact_spacing, run, prevOutcome, fsAtStart, reachContent,
                   skipped, encoded, reached, printCount, printedAt>>
    /\ UNCHANGED predictVars

NextMasks == Call \/ Return \/ Skip \/ Load \/ Reconcile \/ Rasterize \/ WriteMask

SpecMasks == InitMasks /\ [][NextMasks]_vars

\* ================================================================
\*  inference/predict.py
\* ================================================================
ModelKinds == {"keras", "YOLO", "FastSAM", "other"}

\* image_paths = glob(input_path/*.png): the stems are 1..nImg.
ImagePaths == [j \in 1..nImg |-> j]

\* files that may already lie in prediction_path (stem 0 is no input's stem)
StaleFiles == {<<0, "png">>, <<0, "tif">>, <<1, "tif">>}

\* the isinstance chain of predict: the path a model class takes, or the
\* exception it raises
Branch_fallthrough(m) ==
    CASE m = "keras" -> [to |-> "batched", err |-> "none"]
      [] m = "YOLO" -> [to |-> "raised", err |-> "NotImplementedError"]
      [] m = "FastSAM" -> [to |-> "streamed", err |-> "none"]
      [] OTHER -> [to |-> "georef", err |-> "none"]

Branch(m) ==
    CASE m = "keras" -> [to |-> "batched", err |-> "none"]
      [] m = "YOLO" -> [to |-> "raised", err |-> "NotImplementedError"]
      [] m = "FastSAM" -> [to |-> "streamed", err |-> "none"]
      [] OTHER -> [to |-> "raised", err |-> "RuntimeError"]

\* range((len(image_paths) + BATCH_SIZE - 1) // BATCH_SIZE)
NumChunks_floor(len) == len \div BATCH_SIZE

NumChunks(len) == (len + BATCH_SIZE - 1) \div BATCH_SIZE

\* image_paths[BATCH_SIZE * c : BATCH_SIZE * (c + 1)], c counted from 0
Batch(c) == SubSeq(ImagePaths, BATCH_SIZE * c + 1,
                   Min2(BATCH_SIZE * (c + 1), nImg))

\* per-pixel class scores of the dense classifier: class 0 is background,
\* class 1 is building; the scores of a pixel sum to Scale.
RECURSIVE SumTo(_, _)
SumTo(f, c) == IF c < 0 THEN 0 ELSE f[c] + SumTo(f, c - 1)

ScoreVectors == {f \in [0..(NumClasses - 1) -> 0..Scale] :
                    SumTo(f, NumClasses - 1) = Scale}

\* np.argmax(preds, axis=-1): the first index of the largest score
ArgMax(f) == SetMin({c \in DOMAIN f : \A d \in DOMAIN f : f[c] >= f[d]})

\* np.where(preds > confidence, 1, 0) / torch.where(preds > confidence, 1, 0)
Threshold(v, c) == IF v > c THEN 1 ELSE 0

\* the dense classifier thresholds the class index argmax returns; the index
\* c stands at c * Scale on the probability scale (index 1 is 1.0).
DensePixel(f, c) == Threshold(ArgMax(f) * Scale, c)

\* r.masks.data.max(dim=0)[0], then the threshold
StreamPixel(inst, c) == Threshold(SetMax(inst), c)

\* save_mask(preds, prediction_path/<stem>.png)
SaveMask(d, s) == d \cup {<<s, "png">>}

\* georeference(prediction_path, prediction_path, is_mask=True): every plain
\* raster gets a georeferenced raster and a sidecar beside it.
Georeference(d) ==
    d \cup {<<f[1], "tif">> : f \in {g \in d : g[2] = "png"}}
      \cup {<<f[1], "xml">> : f \in {g \in d : g[2] = "png"}}

\* remove_files(prediction_path/*.<ext>)
RemoveFiles(d, ext) == {f \in d : f[2] # ext}

\* the two remove_files calls, in order
RemovePatterns_xmlonly == <<"xml">>

RemovePatterns == <<"xml", "png">>

InitMasksIdle ==
    /\ n = 0
    /\ failing = {}
    /\ input_boundary_width = 50
    /\ input_contact_spacing = 75
    /\ fs = <<>>
    /\ pc = "off"
    /\ i = 0
    /\ first_iteration = TRUE
    /\ res = <<0, 0>>
    /\ metric = FALSE
    /\ meters = FALSE
    /\ boundary_width = 0
    /\ contact_spacing = 0
    /\ run = 0
    /\ prevOutcome = "none"
    /\ fsAtStart = <<>>
    /\ reachContent = <<>>
    /\ skipped = {}
    /\ encoded = {}
    /\ writes = <<>>
    /\ reached = {}
    /\ printCount = 0
    /\ printedAt = {}

InitPredict ==
    /\ kind \in ModelKinds
    /\ nImg \in 0..MaxImages
    /\ confidence \in 0..Scale
    /\ dir \in SUBSET StaleFiles
    /\ dir0 = dir
    /\ ppc = "start"
    /\ k = 0
    /\ raisedError = "none"
    /\ pathTaken = {}
    /\ chunks = <<>>
    /\ saved = [s \in 1..nImg |-> 0]
    /\ lastProb = 0
    /\ lastOut = 0
    /\ geoCalledWith = <<>>
    /\ cleaned = <<>>
    /\ InitMasksIdle

\* lines 53-56, 74-78, 84-85: the model class selects the path or raises.
Dispatch ==
    /\ ppc = "start"
    /\ ppc' = Branch(kind).to
    /\ raisedError' = Branch(kind).err
    /\ pathTaken' = pathTaken \cup ({Branch(kind).to} \cap {"batched", "streamed"})
    /\ UNCHANGED <<kind, nImg, confidence, dir, k, dir0, chunks, saved, lastProb,
                   lastOut, geoCalledWith, cleaned>>
    /\ UNCHANGED maskVars

\* lines 57-73: one chunk is opened, predicted, thresholded and saved.
DenseChunk ==
    /\ ppc = "batched"
    /\ k < NumChunks(nImg)
    /\ LET image_batch == Batch(k)
           stems == {image_batch[j] : j \in 1..Len(image_batch)}
       IN /\ chunks' = Append(chunks, image_batch)
          /\ saved' = [s \in 1..nImg |-> IF s \in stems THEN saved[s] + 1
                                         ELSE saved[s]]
          /\ dir' = dir \cup UNION {SaveMask({}, s) : s \in stems}
    /\ \E f \in ScoreVectors :
          /\ lastProb' = f[1]
          /\ lastOut' = DensePixel(f, confidence)
    /\ k' = k + 1
    /\ UNCHANGED <<kind, nImg, confidence, ppc, raisedError, dir0, pathTaken,
                   geoCalledWith, cleaned>>
    /\ UNCHANGED maskVars

\* the range of chunks is exhausted; lines 87-93.
DenseDone ==
    /\ ppc = "batched"
    /\ k >= NumChunks(nImg)
    /\ ppc' = "georef"
    /\ UNCHANGED <<kind, nImg, confidence, dir, k, raisedError, dir0, pathTaken,
                   chunks, saved, lastProb, lastOut, geoCalledWith, cleaned>>
    /\ UNCHANGED maskVars

\* lines 79-83: one streamed result.  A result without instance masks has
\* masks = None, and reading its data raises.
StreamItem ==
    /\ ppc = "streamed"
    /\ k < nImg
    /\ \E inst \in {S \in SUBSET (0..Scale) : Cardinality(S) <= MaxInstances} :
          \/ /\ inst = {}
             /\ ppc' = "raised"
             /\ raisedError' = "AttributeError"
             /\ UNCHANGED <<dir, k, saved, lastProb, lastOut>>
          \/ /\ inst # {}
             /\ lastProb' = SetMax(inst)
             /\ lastOut' = StreamPixel(inst, confidence)
             /\ dir' = SaveMask(dir, ImagePaths[k + 1])
             /\ saved' = [saved EXCEPT ![ImagePaths[k + 1]] = @ + 1]
             /\ k' = k + 1
             /\ UNCHANGED <<ppc, raisedError>>
    /\ UNCHANGED <<kind, nImg, confidence, dir0, pathTaken, chunks,
                   geoCalledWith, cleaned>>
    /\ UNCHANGED maskVars

\* the stream is exhausted; lines 87-93.
StreamDone ==
    /\ ppc = "streamed"
    /\ k >= nImg
    /\ ppc' = "georef"
    /\ UNCHANGED <<kind, nImg, confidence, dir, k, raisedError, dir0, pathTaken,
                   chunks, saved, lastProb, lastOut, geoCalledWith, cleaned>>
    /\ UNCHANGED maskVars

\* lines 95-96
GeorefStep ==
    /\ ppc = "georef"
    /\ geoCalledWith' = <<dir>>
    /\ dir' = Georeference(dir)
    /\ ppc' = "cleanup"
    /\ UNCHANGED <<kind, nImg, confidence, k, raisedError, dir0, pathTaken,
                   chunks, saved, lastProb, lastOut, cleaned>>
    /\ UNCHANGED maskVars

\* lines 98-99, one remove_files call at a time; predict returns after the
\* last.
Remove ==
    /\ ppc = "cleanup"
    /\ Len(cleaned) < Len(RemovePatterns)
    /\ LET ext == RemovePatterns[Len(cleaned) + 1]
       IN /\ dir' = RemoveFiles(dir, ext)
          /\ cleaned' = Append(cleaned, ext)
    /\ ppc' = IF Len(cleaned) + 1 = Len(RemovePatterns) THEN "done" ELSE "cleanup"
    /\ UNCHANGED <<kind, nImg, confidence, k, raisedError, dir0, pathTaken,
                   chunks, saved, lastProb, lastOut, geoCalledWith>>
    /\ UNCHANGED maskVars

NextPredict ==
    Dispatch \/ DenseChunk \/ DenseDone \/ StreamItem \/ StreamDone
      \/ GeorefStep \/ Remove

SpecPredict == InitPredict /\ [][NextPredict]_vars

\* ================================================================
\*  Properties of multimasks_from_polygons (SpecMasks)
\* ================================================================

C2_FailureIsolated ==
    (pc \in {"returned", "raised"} /\ run >= 1) =>
        \A p \in 1..n :
            fsAtStart[p] = "absent" =>
                IF p \in failing THEN fs[p] = "absent" ELSE fs[p] = "mask"

\* C2 amended: a failure while a pair is encoded is not caught; it leaves
\* the function at that pair.  Every pair before it whose mask did not
\* exist has its mask written, no pair after it is processed, and the
\* failing pair has no sparse mask.  A run that returns has written every
\* mask that did not exist.
C2_FailureEndsRun ==
    /\ \A p \in encoded \cap failing : p = i /\ pc \notin {"loop", "returned"}
    /\ (pc = "raised" /\ i >= 1) =>
          /\ i \in failing
          /\ fs[i] # "mask"
          /\ writes[i] = 0
          /\ \A p \in 1..(i - 1) :
                fsAtStart[p] = "absent" => fs[p] = "mask" /\ writes[p] = 1
          /\ \A p \in (i + 1)..n :
                /\ fs[p] = fsAtStart[p]
                /\ writes[p] = 0
                /\ p \notin encoded
                /\ p \notin skipped
    /\ pc = "returned" =>
          \A p \in 1..n :
              fsAtStart[p] = "absent" => fs[p] = "mask" /\ writes[p] = 1

C2_Witness ==
    /\ pc = "raised"
    /\ i >= 2
    /\ i < n
    /\ writes[1] = 1
    /\ fsAtStart[i + 1] = "absent"
    /\ (i + 1) \notin failing

IsTruncatedQuotient(q, a, m) ==
    /\ a >= 0 => q >= 0 /\ q * m <= a /\ a < (q + 1) * m
    /\ a < 0 => q <= 0 /\ q * m >= a /\ a > (q - 1) * m

C6_UnitReconciliation ==
    pc \in {"raster", "write"} =>
        IF metric
          THEN /\ meters = TRUE
               /\ boundary_width = input_boundary_width
               /\ contact_spacing = input_contact_spacing
          ELSE \E m \in {res[1], res[2]} :
                 /\ m <= res[1]
                 /\ m <= res[2]
                 /\ meters = FALSE
                 /\ IsTruncatedQuotient(boundary_width, input_boundary_width, m)
                 /\ IsTruncatedQuotient(contact_spacing, input_contact_spacing, m)
                 /\ (input_boundary_width = 50 /\ m = 10) => boundary_width = 5
                 /\ (input_boundary_width = 50 /\ m = 30) => boundary_width = 1

C6_Witness ==
    /\ pc = "raster"
    /\ Cardinality(reached) = 2
    /\ ~metric
    /\ res = <<30, 30>>
    /\ input_boundary_width = 50
    /\ boundary_width = 1
    /\ input_contact_spacing = 75
    /\ contact_spacing = 2

\* C10: the resolved parameters are printed once in a run, at the first pair
\* that reaches unit reconciliation, and never in a run that reaches it for
\* no pair, such as a run in which every pair is skipped.
C10_PrintOnce ==
    /\ printCount <= 1
    /\ reached = {} => printCount = 0 /\ printedAt = {}
    /\ reached # {} => printCount = 1 /\ printedAt = {SetMin(reached)}
    /\ (pc = "returned" /\ skipped = 1..n) => printCount = 0

C10_Witness ==
    /\ pc = "returned"
    /\ 1 \in skipped
    /\ Cardinality(reached) >= 2
    /\ printCount = 1
    /\ printedAt = {2}

\* ================================================================
\*  Properties of predict (SpecPredict)
\* ================================================================
RECURSIVE Flatten(_)
Flatten(ss) == IF ss = <<>> THEN <<>> ELSE Head(ss) \o Flatten(Tail(ss))

InputStems == 1..nImg

\* C4: a keras model takes the batched path only, a FastSAM model the
\* streamed path only, a YOLO model raises NotImplementedError and any other
\* model raises the unsupported-model error; a run that raises at the
\* dispatch saves no mask, does not call georeference, removes no file and
\* never completes.
C4_Dispatch ==
    /\ kind = "keras" =>
          /\ pathTaken \subseteq {"batched"}
          /\ ppc # "streamed"
          /\ ppc # "start" => pathTaken = {"batched"}
    /\ kind = "FastSAM" =>
          /\ pathTaken \subseteq {"streamed"}
          /\ ppc # "batched"
          /\ ppc # "start" => pathTaken = {"streamed"}
    /\ kind \in {"YOLO", "other"} =>
          /\ ppc \in {"start", "raised"}
          /\ ppc = "raised" =>
                raisedError = IF kind = "YOLO" THEN "NotImplementedError"
                              ELSE "RuntimeError"
          /\ pathTaken = {}
          /\ \A s \in InputStems : saved[s] = 0
          /\ geoCalledWith = <<>>
          /\ cleaned = <<>>
          /\ dir = dir0

C4_Witness ==
    /\ kind = "other"
    /\ ppc = "raised"
    /\ raisedError = "RuntimeError"
    /\ nImg >= 1
    /\ dir = {}

\* C5: the pixel saved is 1 exactly when the predicted building probability
\* is strictly greater than confidence, and is 0 or 1.
C5_StrictThreshold ==
    (ppc \in {"batched", "streamed"} /\ k >= 1) =>
        /\ lastOut \in {0, 1}
        /\ lastOut = 1 <=> lastProb > confidence

\* C8: georeference is called once every input image has its mask saved,
\* files are removed only after georeference has returned, and a run that
\* completes leaves one georeferenced mask per input image and neither a
\* plain raster nor a sidecar.
C8_Ordering ==
    /\ geoCalledWith # <<>> =>
          \A s \in InputStems : saved[s] = 1 /\ <<s, "png">> \in geoCalledWith[1]
    /\ cleaned # <<>> => geoCalledWith # <<>> /\ ppc \in {"cleanup", "done"}
    /\ ppc = "done" =>
          /\ \A s \in InputStems : <<s, "tif">> \in dir
          /\ \A f \in dir : f[2] = "tif"
          /\ dir = {<<s, "tif">> : s \in InputStems}
                     \cup {<<f[1], "tif">> : f \in dir0}

C8_Witness ==
    /\ ppc = "done"
    /\ kind = "FastSAM"
    /\ nImg >= 2
    /\ dir0 = {}
    /\ dir = {<<s, "tif">> : s \in InputStems}

\* C9: the dense path runs ceil(nImg / 8) chunks, each of 1 to 8 images; the
\* chunks are the input list cut in order, and every input image has one
\* mask saved, at <prediction_path>/<stem>.png.
C9_Chunking ==
    kind = "keras" =>
        /\ \A c \in 1..Len(chunks) :
              Len(chunks[c]) >= 1 /\ Len(chunks[c]) <= 8
        /\ Len(Flatten(chunks)) <= nImg
        /\ Flatten(chunks) = SubSeq(ImagePaths, 1, Len(Flatten(chunks)))
        /\ \A s \in InputStems :
              saved[s] =
                IF \E j \in 1..Len(Flatten(chunks)) : Flatten(chunks)[j] = s
                  THEN 1 ELSE 0
        /\ ppc \in {"georef", "cleanup", "done"} =>
              /\ 8 * Len(chunks) >= nImg
              /\ 8 * (Len(chunks) - 1) < nImg
              /\ Flatten(chunks) = ImagePaths
              /\ \A s \in InputStems : saved[s] = 1
        /\ ppc = "georef" =>
              dir \ dir0 = {<<s, "png">> : s \in InputStems}

C9_Witness ==
    /\ kind = "keras"
    /\ ppc = "georef"
    /\ nImg = 2 * BATCH_SIZE + 1
    /\ Len(chunks) = 3
    /\ Len(chunks[3]) = 1

====
